---- MODULE Spec2Model ----
(***************************************************************************)
(* Model of the streaming GeoJSON exporter                                 *)
(* PythonModule/GeojsonGenerator/GeojsonGenerator.py:                      *)
(* GeojsonGenerator.export_many / export_table and their helpers.          *)
(*                                                                         *)
(* The output file is a sequence of lexemes (each f.write appends the      *)
(* lexemes of the string it writes); the database is one table of rows;    *)
(* the server-side cursor is the sequence of rows not yet fetched.         *)
(***************************************************************************)
EXTENDS Integers, Sequences, FiniteSets, TLC

\* ---------------------------------------------------------------- bounds
\* most rows in the table
MaxRows == 3
\* largest batch_size of the generator
MaxBatch == 2
\* most items handed to export_many
MaxItems == 3

VARIABLES
    table,      \* the source table: a sequence of rows (heap order)
    self,       \* the GeojsonGenerator instance: batch_size, show_progress
    items,      \* the argument of export_many
    files,      \* the file system: path -> content (a sequence of lexemes)
    idx,        \* export_many: index of the item being exported (0 before the first)
    pc,         \* position in export_many / export_table
    exc,        \* the exception that left export_many ("" while none)
    conn,       \* per export, the connection of _connect: "none" | "open" | "closed"
    tx,         \* transaction status of the open connection
    cur,        \* per export, the named cursor: "none" | "open" | "closed"
    fh,         \* per export, the output file handle: "none" | "open" | "closed"
    query,      \* the assembled streaming query
    result,     \* rows the server-side cursor has not delivered yet
    delivered,  \* per export, the rows the cursor has delivered so far (history)
    rows,       \* the part of the current batch the for loop has not visited yet
    total,      \* export_table local: None or Some(count)
    first,      \* export_table local
    written,    \* export_table local
    stderr,     \* diagnostic lines printed with file=sys.stderr
    stdout,     \* "done" lines printed to stdout
    countErr,   \* how _count_rows failed in the current export ("" if it did not)
    snapshot,   \* per export, the content of its output file when it returned (history)
    eff,        \* export_table locals eff_schema, eff_geom
    bound,      \* the list the name "rows" of export_table is bound to
    fetched,    \* None, or Some(the list fetchmany returned that is not bound yet)
    \* GeojsonGenerator._props_expr, evaluated by the server
    columns,          \* the "columns" argument of export_table
    geometry_column,  \* the effective geometry column (eff_geom)
    properties,       \* None, or Some(the keys of a Feature's properties, in order)
    \* PostgresSqlDeployer.deploy_sql
    deployer,   \* the PostgresSqlDeployer instance: default_exclude
    request,    \* the arguments of deploy_sql
    all_dbs,    \* the non-template databases of the server
    targets,    \* deploy_sql local: the filtered, sorted targets
    visited,    \* the _run_sql_on_db calls made so far, with their outcome (history)
    dpc,        \* position in deploy_sql
    dexc,       \* the exception that left deploy_sql ("" while none)
    \* Orchestrator._run_tx
    retry,      \* the RetryPolicy: max_attempts
    attempt,    \* _run_tx local
    attempts,   \* per attempt, its connection and its outcome (history)
    rpc,        \* position in _run_tx
    rexc        \* the exception in flight or raised by _run_tx (None while none)

exportVars == <<table, self, items, files, idx, pc, exc, conn, tx, cur, fh, query,
                result, delivered, rows, total, first, written, stderr, stdout,
                countErr, snapshot, eff, bound, fetched>>
propsVars == <<columns, geometry_column, properties>>
deployVars == <<deployer, request, all_dbs, targets, visited, dpc, dexc>>
txVars == <<retry, attempt, attempts, rpc, rexc>>

vars == <<exportVars, propsVars, deployVars, txVars>>

\* what the steps of one program leave alone: the state of the other programs
notExport == <<propsVars, deployVars, txVars>>
notProps == <<exportVars, deployVars, txVars>>
notDeploy == <<exportVars, propsVars, txVars>>
notRunTx == <<exportVars, propsVars, deployVars>>

\* ------------------------------------------------------- values and lexemes
\* Python's None and a present value
None == << >>
Some(x) == <<x>>

\* lexemes of the literals export_table writes
HEAD == "{\"type\":\"FeatureCollection\",\"features\":"
LBRACKET == "["
RBRACKET == "]"
RBRACE == "}"
COMMA == ","
NL == "\n"

\* '{"type":"FeatureCollection","features":['
PrefixText == <<HEAD, LBRACKET>>
\* mutant: the closing brace is left out of the suffix
SuffixText_noBrace == <<NL, RBRACKET>>
\* "\n]}"
SuffixText == <<NL, RBRACKET, RBRACE>>

\* the text the feature expression of the query yields for row i of the table
FeatureText(i) == "{\"type\":\"Feature\",\"row\":" \o ToString(i) \o "}"

\* what a file holds that an earlier program left at an output path
OldContent == <<"old">>

Paths == {"a.geojson", "b.geojson"}

\* str.strip() on the SQL fragments a caller passes
BlankStrings == {"", " "}
strip(s) == IF s \in BlankStrings THEN "" ELSE s

\* "x and x.strip()" for an optional SQL fragment
Given(opt) == opt # None /\ opt[1] # "" /\ strip(opt[1]) # ""

\* int(target_srid): the values int() accepts
IntLike == {"4326"}

Min(a, b) == IF a < b THEN a ELSE b
Max(a, b) == IF a > b THEN a ELSE b

RECURSIVE Reverse(_)
Reverse(s) == IF s = << >> THEN << >> ELSE Append(Reverse(Tail(s)), Head(s))

\* ------------------------------------------------------------ the database
\* the filter predicates a caller passes: one comparison with a bind
\* parameter, and one whose top-level operator is OR
OrFilter == "flag = %s OR TRUE"

\* the top-level disjuncts of a filter predicate, as the server parses it
disjuncts(text) == IF text = OrFilter THEN <<"flag = %s", "TRUE">> ELSE <<text>>

\* the value of one disjunct on a row: row.match is the value of "flag = %s"
\* under the bind parameters of the call
disjunct_value(d, row) == d = "TRUE" \/ row.match

\* the value of a filter predicate on a row
filter_value(text, row) ==
    \E k \in DOMAIN disjuncts(text) : disjunct_value(disjuncts(text)[k], row)

\* mutant: the count applies the comparison filter whatever the caller passed
count_rows_otherFilter(t, where_sql) ==
    Cardinality({i \in 1..Len(t) : t[i].match})

\* SELECT COUNT(*) FROM schema.table t [WHERE where_sql]
count_rows(t, where_sql) ==
    IF Given(where_sql)
    THEN Cardinality({i \in 1..Len(t) : filter_value(where_sql[1], t[i])})
    ELSE Len(t)

\* int(target_srid) raises ValueError
geom_expr_raises(target_srid) ==
    target_srid # None /\ target_srid[1] \notin IntLike

\* mutant: the query is assembled without the IS NOT NULL guard
build_query_noGuard(where_sql, order_by) ==
    [ not_null_guard |-> FALSE,
      parenthesised |-> TRUE,
      and_where |-> IF Given(where_sql) THEN where_sql ELSE None,
      order_by |-> IF Given(order_by) THEN order_by ELSE None ]

\* mutant: the filter is attached as "AND <filter>", without parentheses
build_query_noParens(where_sql, order_by) ==
    [ not_null_guard |-> TRUE,
      parenthesised |-> FALSE,
      and_where |-> IF Given(where_sql) THEN where_sql ELSE None,
      order_by |-> IF Given(order_by) THEN order_by ELSE None ]

\* the assembled query: its WHERE guard, optional conjunct "AND (<filter>)"
\* and optional ORDER BY
build_query(where_sql, order_by) ==
    [ not_null_guard |-> TRUE,
      parenthesised |-> TRUE,
      and_where |-> IF Given(where_sql) THEN where_sql ELSE None,
      order_by |-> IF Given(order_by) THEN order_by ELSE None ]

\* the value of the WHERE clause of the query on a row; AND binds tighter than
\* OR, so without parentheses the guard joins the first disjunct only
where_value(q, row) ==
    LET guard == q.not_null_guard => row.geom IN
    IF q.and_where = None
    THEN guard
    ELSE LET d == disjuncts(q.and_where[1]) IN
         IF q.parenthesised
         THEN guard /\ filter_value(q.and_where[1], row)
         ELSE \/ guard /\ disjunct_value(d[1], row)
              \/ \E k \in 2..Len(d) : disjunct_value(d[k], row)

\* the rows a query selects, in the order the cursor delivers them: each row
\* is the 1-tuple (feature_text,), here a record with that one field
RunQuery(q, t) ==
    LET keep(i) == where_value(q, t[i])
        ids == SelectSeq([i \in 1..Len(t) |-> i], keep)
        ordered == IF q.order_by # None THEN Reverse(ids) ELSE ids
    IN  [k \in 1..Len(ordered) |->
            [ feature_text |-> IF t[ordered[k]].feat
                               THEN Some(FeatureText(ordered[k]))
                               ELSE None ]]

\* mutant: a fetch hands over one row fewer than the batch size
fetchmany_short(res, n) == SubSeq(res, 1, Min(n, Len(res)) - 1)

\* cursor.fetchmany(n): the next n rows at most
fetchmany(res, n) == SubSeq(res, 1, Min(n, Len(res)))

\* ------------------------------------------------------- scoped resources
\* mutant: _connect yields the connection without try/finally and never closes it
connect_noFinally(c) == c

\* _connect: "finally: conn.close()" runs however the with block is left
connect_finally(c) == IF c = "open" THEN "closed" ELSE c

\* mutant: the file is opened without a with block and is never closed
with_open_noExit(h) == h

\* "with open(...) as f": the handle is closed however the with block is left
with_open_exit(h) == IF h = "open" THEN "closed" ELSE h

\* what the exception path does to the named cursor: export_table has no
\* handler around cur, cur.close() is its last statement
cursor_on_error(c) == c

\* mutant: export_many swallows the exception of an item and goes on
on_item_error_continue == "for_item"

\* export_many calls export_table with no handler around it: an exception of
\* one item leaves export_many
on_item_error == "raised"

\* an exception kind leaves export_table and export_many
Propagate(kind) ==
    /\ pc' = on_item_error
    /\ exc' = kind
    /\ fh' = [fh EXCEPT ![idx] = with_open_exit(@)]
    /\ conn' = [conn EXCEPT ![idx] = connect_finally(@)]
    /\ cur' = [cur EXCEPT ![idx] = cursor_on_error(@)]

\* the item export_many is exporting
item == items[idx]

\* ------------------------------------------------------------ export_many
\* mutant: the per-call override is ignored
effective_default(override, default) == default
\* "schema or self.schema", "geometry_column or self.geometry_column"
effective(override, default) ==
    IF override # None /\ override[1] # "" THEN override[1] ELSE default

\* "for item in items": the next item, its keys, the call of export_table up
\* to the connection being open
StartExport ==
    /\ pc = "for_item"
    /\ UNCHANGED notExport
    /\ bound' = << >>
    /\ fetched' = None
    /\ UNCHANGED snapshot
    /\ idx < Len(items)
    /\ idx' = idx + 1
    /\ countErr' = ""
    /\ UNCHANGED <<table, self, items, files, tx, cur, fh, query, result,
                   delivered, rows, total, first, written, stderr, stdout>>
    /\ IF ~items[idx + 1].has_keys
       THEN \* item["table"] / item["output"] raises before export_table is called
            /\ pc' = on_item_error
            /\ exc' = "KeyError"
            /\ conn' = conn
            /\ eff' = eff
       ELSE /\ eff' = [schema |-> effective(items[idx + 1].schema, self.schema),
                       geom |-> effective(items[idx + 1].geometry_column,
                                          self.geometry_column)]
            /\ \/ /\ conn' = [conn EXCEPT ![idx + 1] = "open"]
                  /\ pc' = "count"
                  /\ exc' = exc
               \/ \* psycopg2.connect raises: no connection exists
                  /\ pc' = on_item_error
                  /\ exc' = "OperationalError"
                  /\ conn' = conn

\* the loop of export_many is exhausted
Return ==
    /\ pc = "for_item"
    /\ UNCHANGED notExport
    /\ UNCHANGED <<bound, fetched>>
    /\ UNCHANGED eff
    /\ UNCHANGED snapshot
    /\ idx = Len(items)
    /\ pc' = "returned"
    /\ UNCHANGED <<table, self, items, files, idx, exc, conn, tx, cur, fh, query,
                   result, delivered, rows, total, first, written, stderr, stdout,
                   countErr>>

\* ----------------------------------------------------------- export_table
\* mutant: the COUNT(*) is issued whatever show_progress is
wants_count_always(generator) == TRUE

\* "if self.show_progress:" of line 180, the only place _count_rows is called
wants_count(generator) == generator.show_progress

\* total = None; if self.show_progress: try _count_rows except: warn
CountRows ==
    /\ pc = "count"
    /\ UNCHANGED notExport
    /\ UNCHANGED <<bound, fetched>>
    /\ UNCHANGED eff
    /\ UNCHANGED snapshot
    /\ pc' = "cursor"
    /\ UNCHANGED <<table, self, items, files, idx, exc, conn, cur, fh, query,
                   result, delivered, rows, first, written, stdout>>
    /\ IF ~wants_count(self)
       THEN /\ total' = None
            /\ UNCHANGED <<tx, stderr, countErr>>
       ELSE \/ /\ total' = Some(count_rows(table, item.where_sql))
               /\ tx' = "intrans"
               /\ UNCHANGED <<stderr, countErr>>
            \/ \* the server rejects or cancels the COUNT(*): the transaction
               \* of the connection is now aborted; the handler only prints
               /\ total' = None
               /\ tx' = "inerror"
               /\ countErr' = "server"
               /\ stderr' = Append(stderr, [line |-> "warn", written |-> 0, total |-> None])
            \/ \* the driver raises before anything reaches the server
               /\ total' = None
               /\ tx' = tx
               /\ countErr' = "driver"
               /\ stderr' = Append(stderr, [line |-> "warn", written |-> 0, total |-> None])

\* cur = conn.cursor(name=...); cur.itersize = ...; query = self._build_query(...)
OpenCursor ==
    /\ pc = "cursor"
    /\ UNCHANGED notExport
    /\ UNCHANGED <<bound, fetched>>
    /\ UNCHANGED eff
    /\ UNCHANGED snapshot
    /\ UNCHANGED <<table, self, items, files, idx, tx, result, delivered, rows,
                   total, first, written, stderr, stdout, countErr>>
    /\ IF geom_expr_raises(item.target_srid)
       THEN /\ pc' = on_item_error
            /\ exc' = "ValueError"
            /\ fh' = [fh EXCEPT ![idx] = with_open_exit(@)]
            /\ conn' = [conn EXCEPT ![idx] = connect_finally(@)]
            /\ cur' = [cur EXCEPT ![idx] = cursor_on_error("open")]
            /\ query' = query
       ELSE /\ cur' = [cur EXCEPT ![idx] = "open"]
            /\ query' = build_query(item.where_sql, item.order_by)
            /\ pc' = "execute"
            /\ UNCHANGED <<exc, conn, fh>>

\* cur.execute(query, where_params or [])
Execute ==
    /\ pc = "execute"
    /\ UNCHANGED notExport
    /\ UNCHANGED <<bound, fetched>>
    /\ UNCHANGED eff
    /\ UNCHANGED snapshot
    /\ UNCHANGED <<table, self, items, files, idx, query, delivered, rows, total,
                   first, written, stderr, stdout, countErr>>
    /\ IF tx = "inerror"
       THEN \* "current transaction is aborted, commands ignored until end of
            \* transaction block": nothing rolled the failed COUNT(*) back
            /\ Propagate("InFailedSqlTransaction")
            /\ UNCHANGED <<tx, result>>
       ELSE \/ /\ result' = RunQuery(query, table)
               /\ tx' = "intrans"
               /\ pc' = "open"
               /\ UNCHANGED <<exc, conn, cur, fh>>
            \/ \* a query error of the assembled SQL
               /\ Propagate("ProgrammingError")
               /\ UNCHANGED <<tx, result>>

\* mutant: the file is opened for appending
open_a(content) == content
\* what open(output_path, "w") leaves of the file
open_w(content) == << >>

\* with open(output_path, "w", encoding="utf-8") as f
OpenFile ==
    /\ pc = "open"
    /\ UNCHANGED notExport
    /\ UNCHANGED <<bound, fetched>>
    /\ UNCHANGED eff
    /\ UNCHANGED snapshot
    /\ UNCHANGED <<table, self, items, idx, tx, query, result, delivered, rows,
                   total, first, written, stderr, stdout, countErr>>
    /\ \/ /\ fh' = [fh EXCEPT ![idx] = "open"]
          /\ files' = [files EXCEPT ![item.output] = open_w(@)]
          /\ pc' = "prefix"
          /\ UNCHANGED <<exc, conn, cur>>
       \/ /\ Propagate("OSError")
          /\ files' = files

\* f.write('{"type":"FeatureCollection","features":['); first = True; written = 0
WritePrefix ==
    /\ pc = "prefix"
    /\ UNCHANGED notExport
    /\ UNCHANGED <<bound, fetched>>
    /\ UNCHANGED eff
    /\ UNCHANGED snapshot
    /\ UNCHANGED <<table, self, items, idx, tx, query, result, delivered, rows,
                   total, stderr, stdout, countErr>>
    /\ \/ /\ files' = [files EXCEPT ![item.output] = @ \o PrefixText]
          /\ first' = TRUE
          /\ written' = 0
          /\ pc' = "fetch"
          /\ UNCHANGED <<exc, conn, cur, fh>>
       \/ /\ Propagate("OSError")
          /\ UNCHANGED <<files, first, written>>

\* rows = cur.fetchmany(self.batch_size); if not rows: break
Fetch ==
    /\ pc = "fetch"
    /\ UNCHANGED notExport
    /\ UNCHANGED <<bound, fetched>>
    /\ UNCHANGED eff
    /\ UNCHANGED snapshot
    /\ UNCHANGED <<table, self, items, files, idx, tx, query, total, first,
                   written, stderr, stdout, countErr>>
    /\ \/ LET batch == fetchmany(result, self.batch_size) IN
          /\ rows' = batch
          /\ result' = SubSeq(result, Len(batch) + 1, Len(result))
          /\ delivered' = [delivered EXCEPT ![idx] = @ \o batch]
          /\ pc' = IF batch = << >> THEN "suffix" ELSE "for_row"
          /\ UNCHANGED <<exc, conn, cur, fh>>
       \/ /\ Propagate("OperationalError")
          /\ UNCHANGED <<rows, result, delivered>>

\* mutant: the comma is written before every feature, the first included
feature_writes_alwaysComma(isFirst, text) == <<COMMA, NL, text>>

\* the f.write calls of one loop body for a feature text: the comma unless
\* this is the first feature, the newline, the text
feature_writes(isFirst, text) ==
    (IF isFirst THEN << >> ELSE <<COMMA>>) \o <<NL, text>>

\* "if total and self.show_progress and written % self.batch_size == 0"
progress_due(tot, w) ==
    /\ tot # None
    /\ tot[1] # 0
    /\ self.show_progress
    /\ w % self.batch_size = 0

\* pct = (written / max(total, 1)) * 100.0, to whole percents
pct(w, tot) == (w * 100) \div Max(tot, 1)

\* mutant: the batch is walked from its last row to its first
for_rows_reversed(batch) ==
    [ feature_text |-> batch[Len(batch)].feature_text,
      rest |-> SubSeq(batch, 1, Len(batch) - 1) ]

\* "for (feature_text,) in rows": the row of this pass and the rows left
for_rows(batch) == [feature_text |-> Head(batch).feature_text, rest |-> Tail(batch)]

\* mutant: a null feature text is written like any other
write_row_nullWritten(ws, feature_text) ==
    [ content |-> ws.content
                    \o feature_writes(ws.first,
                                      IF feature_text = None THEN "null"
                                      ELSE feature_text[1]),
      first |-> FALSE,
      written |-> ws.written + 1 ]

\* the body of the for loop, lines 213-221, when no write raises, on the
\* writer state ws = [content, first, written]
write_row(ws, feature_text) ==
    IF feature_text = None
    THEN ws
    ELSE [ content |-> ws.content \o feature_writes(ws.first, feature_text[1]),
           first |-> FALSE,
           written |-> ws.written + 1 ]

RECURSIVE write_rows(_, _)
\* the for loop over one batch, no write raising
write_rows(batch, ws) ==
    IF batch = << >>
    THEN ws
    ELSE write_rows(for_rows(batch).rest, write_row(ws, for_rows(batch).feature_text))

RECURSIVE stream(_, _, _)
\* the while loop, lines 207-221, on the rows res of the cursor with batch
\* size n, then the suffix: the content the file ends with
stream(res, n, ws) ==
    LET batch == fetchmany(res, n) IN
    IF batch = << >>
    THEN ws.content \o SuffixText
    ELSE stream(SubSeq(res, Len(batch) + 1, Len(res)), n, write_rows(batch, ws))

\* the file export_table writes for the rows res with batch size n, lines 203-227
export_content(res, n) ==
    stream(res, n, [content |-> PrefixText, first |-> TRUE, written |-> 0])

\* one pass of "for (feature_text,) in rows": lines 212-225
ForRow ==
    /\ pc = "for_row"
    /\ UNCHANGED notExport
    /\ UNCHANGED <<bound, fetched>>
    /\ UNCHANGED eff
    /\ UNCHANGED snapshot
    /\ rows # << >>
    /\ rows' = for_rows(rows).rest
    /\ UNCHANGED <<table, self, items, idx, tx, query, result, delivered, total,
                   stdout, countErr>>
    /\ LET feature_text == for_rows(rows).feature_text
           next == IF for_rows(rows).rest = << >> THEN "fetch" ELSE "for_row"
           ws == write_row([content |-> files[item.output], first |-> first,
                            written |-> written], feature_text)
       IN  \/ /\ files' = [files EXCEPT ![item.output] = ws.content]
              /\ first' = ws.first
              /\ written' = ws.written
              /\ stderr' = IF ws.written # written /\ progress_due(total, ws.written)
                           THEN Append(stderr,
                                  [line |-> "progress", written |-> ws.written,
                                   total |-> total])
                           ELSE stderr
              /\ pc' = next
              /\ UNCHANGED <<exc, conn, cur, fh>>
           \/ \* the k-th f.write of this pass raises
              /\ feature_text # None
              /\ LET w == feature_writes(first, feature_text[1]) IN
                 \E k \in 1..Len(w) :
                    files' = [files EXCEPT ![item.output] = @ \o SubSeq(w, 1, k - 1)]
              /\ first' = FALSE
              /\ Propagate("OSError")
              /\ UNCHANGED <<written, stderr>>

\* f.write("\n]}") and the end of the with block of the file
WriteSuffix ==
    /\ pc = "suffix"
    /\ UNCHANGED notExport
    /\ UNCHANGED <<bound, fetched>>
    /\ UNCHANGED eff
    /\ UNCHANGED snapshot
    /\ UNCHANGED <<table, self, items, idx, tx, query, result, delivered, rows,
                   total, first, written, stderr, stdout, countErr>>
    /\ \/ /\ files' = [files EXCEPT ![item.output] = @ \o SuffixText]
          /\ fh' = [fh EXCEPT ![idx] = with_open_exit(@)]
          /\ pc' = "finish"
          /\ UNCHANGED <<exc, conn, cur>>
       \/ /\ Propagate("OSError")
          /\ files' = files

\* the "done" line, cur.close(), and the end of the with block of _connect
Finish ==
    /\ pc = "finish"
    /\ UNCHANGED notExport
    /\ UNCHANGED <<bound, fetched>>
    /\ UNCHANGED eff
    /\ stdout' = IF self.show_progress
                 THEN Append(stdout, [written |-> written, total |-> total])
                 ELSE stdout
    /\ cur' = [cur EXCEPT ![idx] = "closed"]
    /\ conn' = [conn EXCEPT ![idx] = connect_finally(@)]
    /\ tx' = "idle"
    /\ snapshot' = [snapshot EXCEPT ![idx] = files[item.output]]
    /\ pc' = "for_item"
    /\ UNCHANGED <<table, self, items, files, idx, exc, fh, query, result,
                   delivered, rows, total, first, written, stderr, countErr>>

Next ==
    \/ StartExport
    \/ Return
    \/ CountRows
    \/ OpenCursor
    \/ Execute
    \/ OpenFile
    \/ WritePrefix
    \/ Fetch
    \/ ForRow
    \/ WriteSuffix
    \/ Finish

\* ------------------------------------------- the table during one export
\* Another session commits an INSERT while export_table holds its connection.
\* The COUNT(*) of line 182 and the query of line 199 are two statements of
\* one READ COMMITTED transaction: each sees the rows committed when it starts.
OtherSession ==
    /\ idx >= 1
    /\ conn[idx] = "open"
    /\ Len(table) < MaxRows
    /\ table' = Append(table, [geom |-> TRUE, match |-> TRUE, feat |-> TRUE])
    /\ UNCHANGED notExport
    /\ UNCHANGED <<self, items, files, idx, pc, exc, conn, tx, cur, fh, query,
                   result, delivered, rows, total, first, written, stderr,
                   stdout, countErr, snapshot, eff, bound, fetched>>

\* export_many while other sessions write to the table
NextConcurrent ==
    \/ OtherSession
    \/ StartExport
    \/ Return
    \/ CountRows
    \/ OpenCursor
    \/ Execute
    \/ OpenFile
    \/ WritePrefix
    \/ Fetch
    \/ ForRow
    \/ WriteSuffix
    \/ Finish

\* ------------------------------- "rows = cur.fetchmany(self.batch_size)"
\* The right-hand side of line 208 is evaluated first: fetchmany builds and
\* returns a new list while the name rows is still bound to the list of the
\* previous pass of the while loop.
FetchMany ==
    /\ pc = "fetch"
    /\ fetched = None
    /\ UNCHANGED notExport
    /\ UNCHANGED <<table, self, items, files, idx, tx, query, total, first,
                   written, stderr, stdout, countErr, snapshot, eff, bound, rows>>
    /\ \/ LET batch == fetchmany(result, self.batch_size) IN
          /\ fetched' = Some(batch)
          /\ result' = SubSeq(result, Len(batch) + 1, Len(result))
          /\ delivered' = [delivered EXCEPT ![idx] = @ \o batch]
          /\ pc' = "bind"
          /\ UNCHANGED <<exc, conn, cur, fh>>
       \/ /\ Propagate("OperationalError")
          /\ UNCHANGED <<fetched, result, delivered>>

\* The assignment of line 208 rebinds the name rows, which drops the last
\* reference to the previous list; then "if not rows: break", or the for loop
\* starts on the new list.
BindRows ==
    /\ pc = "bind"
    /\ fetched # None
    /\ UNCHANGED notExport
    /\ bound' = fetched[1]
    /\ rows' = fetched[1]
    /\ fetched' = None
    /\ pc' = IF fetched[1] = << >> THEN "suffix" ELSE "for_row"
    /\ UNCHANGED <<table, self, items, files, idx, exc, conn, tx, cur, fh, query,
                   result, delivered, total, first, written, stderr, stdout,
                   countErr, snapshot, eff>>

\* export_many with line 208 taken in its two steps
NextMemory ==
    \/ StartExport
    \/ Return
    \/ CountRows
    \/ OpenCursor
    \/ Execute
    \/ OpenFile
    \/ WritePrefix
    \/ FetchMany
    \/ BindRows
    \/ ForRow
    \/ WriteSuffix
    \/ Finish

\* ------------------------------------- the for loop, statement by statement
\* mutant: the comma is written before the first feature too
comma_due_always(isFirst) == TRUE
\* "if first: first = False / else: f.write(',')"
comma_due(isFirst) == ~isFirst

\* mutant: the while loop is left after the first batch
after_row_break(rest) == IF rest = << >> THEN "suffix" ELSE "for_row"
\* where the for loop goes after a row: to the next row, or to the next fetch
after_row(rest) == IF rest = << >> THEN "fetch" ELSE "for_row"

\* "for (feature_text,) in rows: if feature_text is None: continue;
\*  if first: first = False else: f.write(',')"
RowComma ==
    /\ pc = "for_row"
    /\ rows # << >>
    /\ UNCHANGED notExport
    /\ UNCHANGED <<bound, fetched>>
    /\ UNCHANGED eff
    /\ UNCHANGED <<table, self, items, idx, tx, query, result, delivered, total,
                   written, stderr, stdout, countErr, snapshot>>
    /\ LET r == for_rows(rows) IN
       IF r.feature_text = None
       THEN /\ rows' = r.rest
            /\ pc' = after_row(r.rest)
            /\ UNCHANGED <<files, first, exc, conn, cur, fh>>
       ELSE \/ /\ files' = [files EXCEPT ![item.output] =
                               IF comma_due(first) THEN Append(@, COMMA) ELSE @]
               /\ first' = FALSE
               /\ pc' = "nl"
               /\ UNCHANGED <<rows, exc, conn, cur, fh>>
            \/ /\ comma_due(first)
               /\ Propagate("OSError")
               /\ UNCHANGED <<files, first, rows>>

\* f.write("\n")
RowNewline ==
    /\ pc = "nl"
    /\ UNCHANGED notExport
    /\ UNCHANGED <<bound, fetched>>
    /\ UNCHANGED eff
    /\ UNCHANGED <<table, self, items, idx, tx, query, result, delivered, rows,
                   total, first, written, stderr, stdout, countErr, snapshot>>
    /\ \/ /\ files' = [files EXCEPT ![item.output] = Append(@, NL)]
          /\ pc' = "text"
          /\ UNCHANGED <<exc, conn, cur, fh>>
       \/ /\ Propagate("OSError")
          /\ files' = files

\* f.write(feature_text)
RowFeature ==
    /\ pc = "text"
    /\ UNCHANGED notExport
    /\ UNCHANGED <<bound, fetched>>
    /\ UNCHANGED eff
    /\ UNCHANGED <<table, self, items, idx, tx, query, result, delivered, rows,
                   total, first, written, stderr, stdout, countErr, snapshot>>
    /\ \/ /\ files' = [files EXCEPT ![item.output] =
                          Append(@, for_rows(rows).feature_text[1])]
          /\ pc' = "inc"
          /\ UNCHANGED <<exc, conn, cur, fh>>
       \/ /\ Propagate("OSError")
          /\ files' = files

\* written += 1 and the progress line
RowCount ==
    /\ pc = "inc"
    /\ written' = written + 1
    /\ stderr' = IF progress_due(total, written + 1)
                 THEN Append(stderr, [line |-> "progress", written |-> written + 1,
                                      total |-> total])
                 ELSE stderr
    /\ rows' = for_rows(rows).rest
    /\ pc' = after_row(for_rows(rows).rest)
    /\ UNCHANGED notExport
    /\ UNCHANGED <<bound, fetched>>
    /\ UNCHANGED eff
    /\ UNCHANGED <<table, self, items, files, idx, exc, conn, tx, cur, fh, query,
                   result, delivered, total, first, stdout, countErr, snapshot>>

\* export_many with the for loop of export_table taken statement by statement
NextWrites ==
    \/ StartExport
    \/ Return
    \/ CountRows
    \/ OpenCursor
    \/ Execute
    \/ OpenFile
    \/ WritePrefix
    \/ Fetch
    \/ RowComma
    \/ RowNewline
    \/ RowFeature
    \/ RowCount
    \/ WriteSuffix
    \/ Finish

\* ------------------------------------------------------------ _props_expr
\* most names in an explicit column list
MaxCols == 3

\* the columns of the exported table; "geom" and "shape" hold geometries
TableColumns == {"id", "name", "geom", "shape"}
\* the geometry column an export may name (the default and an override)
GeomColumns == {"geom", "shape"}

\* the "columns" argument: omitted (None), a string, or a list of names
NoColumns == [tag |-> "None"]
ColumnsStr(s) == [tag |-> "str", text |-> s]
ColumnsList(l) == [tag |-> "list", names |-> l]

\* strings s with s.strip() == "*"
StarStrings == {"*", " * "}

ColumnsArgs ==
    {NoColumns} \cup {ColumnsStr(s) : s \in StarStrings}
    \cup {ColumnsList(l) : l \in UNION {[1..n -> TableColumns] : n \in 0..MaxCols}}

\* export_table: "if isinstance(columns, str) and columns.strip() == '*': columns = None"
normalize_columns(c) ==
    IF c.tag = "str" /\ c.text \in StarStrings THEN NoColumns ELSE c

\* "not columns": None and the empty list
not_columns(c) == c.tag = "None" \/ (c.tag = "list" /\ c.names = << >>)

\* _props_expr: the SQL expression of the properties object
\*   to_jsonb(t) - '<geom_col>'    or    to_jsonb((SELECT r FROM (SELECT t.c1, ...) r))
props_expr(c, geom_col) ==
    IF not_columns(c)
    THEN [kind |-> "minus", key |-> geom_col]
    ELSE [kind |-> "subset", cols |-> c.names]

\* the order in which a jsonb object holds and prints the keys of the table:
\* shorter keys first, keys of one length in byte order
JsonbKeyOrder == <<"id", "geom", "name", "shape">>

\* the keys of the jsonb object to_jsonb makes of a row with the columns S:
\* each key once, in jsonb order
to_jsonb(S) == SelectSeq(JsonbKeyOrder, LAMBDA k : k \in S)

\* the keys of the object the server computes for the properties expression
eval_props(e) ==
    IF e.kind = "minus"
    THEN to_jsonb(TableColumns \ {e.key})
    ELSE to_jsonb({e.cols[i] : i \in DOMAIN e.cols})

\* export_table normalises the columns; _build_query calls _props_expr; the
\* server evaluates the expression for a row
PropsExpr ==
    /\ properties = None
    /\ properties' = Some(eval_props(props_expr(normalize_columns(columns),
                                                geometry_column)))
    /\ UNCHANGED <<columns, geometry_column>>
    /\ UNCHANGED notProps

NextProps == PropsExpr

\* ---------------------------------------------------- PostgresSqlDeployer
\* the databases a server may hold
DbNames == {"app1", "app2", "postgres"}

\* Python's order of these names
NameOrder == <<"app1", "app2", "postgres">>

\* sorted(s)
sorted(S) == SelectSeq(NameOrder, LAMBDA d : d \in S)

\* truth value of an Optional[Iterable[str]]: None and the empty one are false
truthy(opt) == opt # None /\ opt[1] # {}

\* __init__: self.default_exclude = set(default_exclude or []) | {"postgres"}
default_exclude_of(arg) == (IF truthy(arg) THEN arg[1] ELSE {}) \cup {"postgres"}

\* _filter_databases
filter_databases(dbs, default_exclude, include, exclude) ==
    LET s1 == dbs \ default_exclude
        s2 == IF truthy(exclude) THEN s1 \ exclude[1] ELSE s1
        s3 == IF truthy(include) THEN s2 \cap include[1] ELSE s2
    IN  sorted(s3)

\* mutant: a failed database never stops the loop
on_db_error_continue(continue_on_error) == "loop"
\* "if not continue_on_error: raise" in the handler of the loop of deploy_sql
on_db_error(continue_on_error) ==
    IF continue_on_error THEN "loop" ELSE "raised"

\* all_dbs = self.list_databases(); targets = self._filter_databases(...);
\* "if not targets: ... return"
ListAndFilter ==
    /\ dpc = "start"
    /\ UNCHANGED <<deployer, request, all_dbs, visited>>
    /\ UNCHANGED notDeploy
    /\ \/ LET t == filter_databases(all_dbs, deployer.default_exclude,
                                    request.include, request.exclude) IN
          /\ targets' = t
          /\ dpc' = IF t = << >> THEN "returned" ELSE "loop"
          /\ dexc' = dexc
       \/ \* the connection to 'postgres' or the catalogue query raises
          /\ dpc' = "raised"
          /\ dexc' = "list_databases"
          /\ targets' = targets

\* one pass of "for db in targets": _run_sql_on_db and the handler
RunSqlOnDb ==
    /\ dpc = "loop"
    /\ Len(visited) < Len(targets)
    /\ UNCHANGED <<deployer, request, all_dbs, targets>>
    /\ UNCHANGED notDeploy
    /\ LET db == targets[Len(visited) + 1] IN
       \/ /\ visited' = Append(visited, [db |-> db, failed |-> FALSE])
          /\ UNCHANGED <<dpc, dexc>>
       \/ \* connecting to db or executing the SQL raises; a dry run does neither
          /\ ~request.dry_run
          /\ visited' = Append(visited, [db |-> db, failed |-> TRUE])
          /\ dpc' = on_db_error(request.continue_on_error)
          /\ dexc' = IF on_db_error(request.continue_on_error) = "raised"
                     THEN db ELSE dexc

\* the loop of deploy_sql is exhausted
DeployReturn ==
    /\ dpc = "loop"
    /\ Len(visited) = Len(targets)
    /\ dpc' = "returned"
    /\ UNCHANGED <<deployer, request, all_dbs, targets, visited, dexc>>
    /\ UNCHANGED notDeploy

NextDeploy ==
    \/ ListAndFilter
    \/ RunSqlOnDb
    \/ DeployReturn

\* ---------------------------------------------------- Orchestrator._run_tx
\* largest max_attempts of the retry policy
MaxAttempts == 3

TRANSIENT_SQLSTATES ==
    {"40001", "40P01", "55P03", "57014", "53300", "08006", "08003", "08001"}

\* mutant: every SQLSTATE counts as transient
is_transient_always(pgcode) == TRUE
\* is_transient_sqlstate; pgcode is None or Some(code)
is_transient_sqlstate(pgcode) ==
    pgcode # None /\ pgcode[1] \in TRANSIENT_SQLSTATES

\* the pgcode a psycopg2.Error may carry: none, two transient ones, a
\* non-transient one (unique_violation)
PgCodes == {None, Some("40001"), Some("08006"), Some("23505")}

\* what an attempt may raise: a psycopg2.Error, or another exception
DbErrors == {[db |-> TRUE, pgcode |-> c] : c \in PgCodes}
OtherError == [db |-> FALSE, pgcode |-> None]

\* "finally: conn.close()"
run_tx_finally(c) == "closed"

\* the except clause is left by "continue": the exception and its traceback are
\* released, and with them the connection that PostgresClient.connect had
\* opened when its session setup raised (psycopg2 closes a connection that is
\* deallocated)
release(c) == IF c = "unreferenced" THEN "closed" ELSE c

\* "attempt += 1; conn = self.db.connect()"
Attempt ==
    /\ rpc = "loop"
    /\ attempt' = attempt + 1
    /\ UNCHANGED retry
    /\ UNCHANGED notRunTx
    /\ \/ /\ attempts' = Append(attempts, [conn |-> "open", error |-> None])
          /\ rpc' = "fn"
          /\ rexc' = rexc
       \/ \* psycopg2.connect raises: no connection exists
          \E e \in DbErrors :
             /\ attempts' = Append(attempts, [conn |-> "none", error |-> Some(e)])
             /\ rpc' = "except"
             /\ rexc' = Some(e)
       \/ \* a SET of the session setup raises: connect returns no connection,
          \* the one it opened is referenced by the traceback only
          \E e \in DbErrors :
             /\ attempts' = Append(attempts,
                                   [conn |-> "unreferenced", error |-> Some(e)])
             /\ rpc' = "except"
             /\ rexc' = Some(e)

\* "with conn: fn(conn)", the commit, "finally: conn.close()"
RunFn ==
    /\ rpc = "fn"
    /\ UNCHANGED <<retry, attempt>>
    /\ UNCHANGED notRunTx
    /\ \/ /\ attempts' = [attempts EXCEPT ![Len(attempts)].conn = run_tx_finally(@)]
          /\ rpc' = "returned"
          /\ rexc' = rexc
       \/ \* fn or the commit raises
          \E e \in DbErrors \cup {OtherError} :
             /\ attempts' = [attempts EXCEPT
                                ![Len(attempts)] = [conn |-> run_tx_finally(@.conn),
                                                    error |-> Some(e)]]
             /\ rexc' = Some(e)
             /\ rpc' = IF e.db THEN "except" ELSE "raised"

\* "except psycopg2.Error as e": retry or re-raise
Except ==
    /\ rpc = "except"
    /\ UNCHANGED <<retry, attempt>>
    /\ UNCHANGED notRunTx
    /\ IF attempt < retry.max_attempts /\ is_transient_sqlstate(rexc[1].pgcode)
       THEN /\ rpc' = "loop"
            /\ rexc' = None
            /\ attempts' = [attempts EXCEPT ![Len(attempts)].conn = release(@)]
       ELSE /\ rpc' = "raised"
            /\ UNCHANGED <<rexc, attempts>>

NextRunTx ==
    \/ Attempt
    \/ RunFn
    \/ Except

\* ------------------------------------------------------------ initial states
\* no export is running and none has run
NoExport ==
    /\ table = << >>
    /\ self = [batch_size |-> 1, show_progress |-> FALSE, schema |-> "public",
               geometry_column |-> "geom"]
    /\ items = << >>
    /\ files = [p \in Paths |-> OldContent]
    /\ idx = 0
    /\ pc = "returned"
    /\ exc = ""
    /\ conn = << >>
    /\ cur = << >>
    /\ fh = << >>
    /\ delivered = << >>
    /\ snapshot = << >>
    /\ eff = [schema |-> "public", geom |-> "geom"]
    /\ bound = << >>
    /\ fetched = None
    /\ tx = "idle"
    /\ query = build_query(None, None)
    /\ result = << >>
    /\ rows = << >>
    /\ total = None
    /\ first = TRUE
    /\ written = 0
    /\ stderr = << >>
    /\ stdout = << >>
    /\ countErr = ""

\* no properties expression is being evaluated
NoProps ==
    /\ columns = NoColumns
    /\ geometry_column = "geom"
    /\ properties = None

\* no deployment is running
NoDeploy ==
    /\ deployer = [default_exclude |-> default_exclude_of(None)]
    /\ request = [include |-> None, exclude |-> None, dry_run |-> FALSE,
                  continue_on_error |-> FALSE]
    /\ all_dbs = {}
    /\ targets = << >>
    /\ visited = << >>
    /\ dpc = "returned"
    /\ dexc = ""

\* no orchestration step is running
NoRunTx ==
    /\ retry = [max_attempts |-> 1]
    /\ attempt = 0
    /\ attempts = << >>
    /\ rpc = "returned"
    /\ rexc = None

Tables(RowSet) == UNION {[1..n -> RowSet] : n \in 0..MaxRows}

\* an export request with every key present and no reprojection
Item(out, where_sql, order_by) ==
    [ has_keys |-> TRUE, output |-> out, where_sql |-> where_sql,
      order_by |-> order_by, target_srid |-> None, schema |-> None,
      geometry_column |-> None ]

WhereSqls == {None, Some(" "), Some("flag = %s"), Some(OrFilter)}
OrderBys == {None, Some("id DESC")}

InitCommon ==
    /\ self \in [batch_size : 1..MaxBatch, show_progress : BOOLEAN,
                  schema : {"public"}, geometry_column : {"geom"}]
    /\ idx = 0
    /\ pc = "for_item"
    /\ exc = ""
    /\ conn = [i \in 1..Len(items) |-> "none"]
    /\ cur = [i \in 1..Len(items) |-> "none"]
    /\ fh = [i \in 1..Len(items) |-> "none"]
    /\ delivered = [i \in 1..Len(items) |-> << >>]
    /\ tx = "idle"
    /\ query = build_query(None, None)
    /\ result = << >>
    /\ rows = << >>
    /\ total = None
    /\ first = TRUE
    /\ written = 0
    /\ stderr = << >>
    /\ stdout = << >>
    /\ countErr = ""
    /\ snapshot = [i \in 1..Len(items) |-> << >>]
    /\ eff = [schema |-> self.schema, geom |-> self.geometry_column]
    /\ bound = << >>
    /\ fetched = None
    /\ NoProps /\ NoDeploy /\ NoRunTx

\* one export_table call on any table, with any filter and ordering
Init ==
    /\ table \in Tables([geom : BOOLEAN, match : BOOLEAN, feat : {TRUE}])
    /\ items \in {<<Item("a.geojson", w, o)>> : w \in WhereSqls, o \in OrderBys}
    /\ files = [p \in Paths |-> OldContent]
    /\ InitCommon

Spec == Init /\ [][Next]_vars

\* export_many on a list of items: requests that are in order, one whose keys
\* are missing, one whose target_srid is no integer; two output paths
ManyItems ==
    {Item(p, None, None) : p \in Paths}
    \cup {[Item("a.geojson", None, None) EXCEPT !.has_keys = FALSE],
          [Item("a.geojson", None, None) EXCEPT !.target_srid = Some("abc")]}

ItemLists == UNION {[1..n -> ManyItems] : n \in 1..MaxItems}

InitMany ==
    /\ table \in Tables([geom : {TRUE}, match : {TRUE}, feat : {TRUE}])
    /\ items \in ItemLists
    /\ files = [p \in Paths |-> OldContent]
    /\ InitCommon

SpecMany == InitMany /\ [][Next]_vars

\* one export_table call whose cursor may deliver rows with a null feature text
InitCursor ==
    /\ table \in Tables([geom : {TRUE}, match : {TRUE}, feat : BOOLEAN])
    /\ items \in {<<Item("a.geojson", None, o)>> : o \in OrderBys}
    /\ files = [p \in Paths |-> OldContent]
    /\ InitCommon

SpecCursor == InitCursor /\ [][Next]_vars

\* the for loop statement by statement, on the tables of InitCursor
SpecWrites == InitCursor /\ [][NextWrites]_vars

\* one export_table call on a table other sessions insert into
InitConcurrent ==
    /\ table \in Tables([geom : {TRUE}, match : {TRUE}, feat : {TRUE}])
    /\ items = <<Item("a.geojson", None, None)>>
    /\ files = [p \in Paths |-> OldContent]
    /\ InitCommon

SpecConcurrent == InitConcurrent /\ [][NextConcurrent]_vars

\* line 208 in its two steps, on the tables of InitCursor
SpecMemory == InitCursor /\ [][NextMemory]_vars

\* export requests with and without the per-call overrides of export_table
OverrideItems ==
    {[Item("a.geojson", None, None) EXCEPT !.schema = s, !.geometry_column = g] :
        s \in {None, Some(""), Some("aero")}, g \in {None, Some("shape")}}

\* export_many on two requests, each with or without overrides
InitOverrides ==
    /\ table \in Tables([geom : {TRUE}, match : {TRUE}, feat : {TRUE}])
    /\ items \in [1..2 -> OverrideItems]
    /\ files = [p \in Paths |-> OldContent]
    /\ InitCommon

SpecOverrides == InitOverrides /\ [][Next]_vars

\* export_many as a running program: it goes on to its next statement as long
\* as it has one
SpecLive == InitCursor /\ [][Next]_vars /\ WF_vars(Next)

\* one evaluation of the properties expression, for any columns argument and
\* either geometry column
InitProps ==
    /\ columns \in ColumnsArgs
    /\ geometry_column \in GeomColumns
    /\ properties = None
    /\ NoExport /\ NoDeploy /\ NoRunTx

SpecProps == InitProps /\ [][NextProps]_vars

\* an Optional[Iterable[str]] of database names
OptNames == {None} \cup {Some(S) : S \in SUBSET DbNames}

\* one deploy_sql call of any deployer on any server
InitDeploy ==
    /\ deployer \in {[default_exclude |-> default_exclude_of(a)] :
                        a \in {None, Some({"app2"})}}
    /\ request \in [include : OptNames, exclude : OptNames, dry_run : BOOLEAN,
                    continue_on_error : BOOLEAN]
    /\ all_dbs \in SUBSET DbNames
    /\ targets = << >>
    /\ visited = << >>
    /\ dpc = "start"
    /\ dexc = ""
    /\ NoExport /\ NoProps /\ NoRunTx

SpecDeploy == InitDeploy /\ [][NextDeploy]_vars

\* one _run_tx call under any retry policy
InitRunTx ==
    /\ retry \in [max_attempts : 0..MaxAttempts]
    /\ attempt = 0
    /\ attempts = << >>
    /\ rpc = "loop"
    /\ rexc = None
    /\ NoExport /\ NoProps /\ NoDeploy

SpecRunTx == InitRunTx /\ [][NextRunTx]_vars

\* ================================================================ claims
\* export_table call i (the export of items[i]) has returned normally
Returned(i) == idx > i \/ (idx = i /\ pc \in {"for_item", "returned"})

\* export_table call i has been left, normally or by an exception
Exited(i) == Returned(i) \/ (idx = i /\ pc = "raised")

\* the output path of item i
Out(i) == items[i].output

\* no later export has opened the output path of item i
NotReopened(i) == \A j \in (i + 1)..idx : fh[j] = "none" \/ Out(j) # Out(i)

\* lexemes that are feature texts
IsFeature(x) == x \in {FeatureText(r) : r \in 1..Len(table)}
Features(content) == SelectSeq(content, IsFeature)

\* a content without its JSON-insignificant whitespace
NotWs(x) == x # "\n"
StripWs(content) == SelectSeq(content, NotWs)

RECURSIVE JoinComma(_)
\* the texts fs with one comma between each two of them
JoinComma(fs) ==
    IF Len(fs) <= 1 THEN fs ELSE <<Head(fs), ",">> \o JoinComma(Tail(fs))

\* the non-null feature texts of a sequence of cursor rows, in order
HasText(row) == row.feature_text # << >>
Texts(rs) ==
    LET kept == SelectSeq(rs, HasText)
    IN  [k \in 1..Len(kept) |-> kept[k].feature_text[1]]

\* the caller passed a filter predicate (a blank fragment is none)
HasFilter(i) == items[i].where_sql \notin {<< >>, <<"">>, <<" ">>}
HasOrder(i) == items[i].order_by \notin {<< >>, <<"">>, <<" ">>}

\* the rows of the table an export of item i has to emit
Qualifying(i) ==
    {r \in 1..Len(table) :
        table[r].geom /\ (HasFilter(i) => filter_value(items[i].where_sql[1], table[r]))}

\* how often lexeme x occurs in a content
Occurrences(content, x) == Cardinality({k \in 1..Len(content) : content[k] = x})

\* C1: when export_table returns normally its file is, whitespace aside, the
\* prefix once, the feature texts with exactly one comma between each two
\* consecutive ones and none leading or trailing, then "]}" once: a JSON
\* object of type FeatureCollection whose features member is an array
C1_WellFormedCollection ==
    \A i \in 1..Len(items) :
        (Returned(i) /\ NotReopened(i)) =>
            LET c == StripWs(files[Out(i)])
            IN  c = <<"{\"type\":\"FeatureCollection\",\"features\":", "[">>
                    \o JoinComma(Features(c)) \o <<"]", "}">>

\* C1 witness: a returned export whose cursor delivered a null feature text
\* and whose file holds at least two features
C1_Witness ==
    /\ Returned(1)
    /\ Len(Features(files[Out(1)])) >= 2
    /\ \E k \in 1..Len(delivered[1]) : delivered[1][k].feature_text = None

C3_OneFeaturePerQualifyingRow ==
    Returned(1) =>
        /\ Len(Features(files[Out(1)])) = Cardinality(Qualifying(1))
        /\ \A r \in 1..Len(table) :
              Occurrences(files[Out(1)], FeatureText(r)) =
                  (IF r \in Qualifying(1) THEN 1 ELSE 0)

\* C3 witness: a filtered export returned on a table with a null-geometry
\* row, a row the filter rejects, and a row that is emitted
C3_Witness ==
    /\ Returned(1)
    /\ HasFilter(1)
    /\ \E r \in 1..Len(table) : ~table[r].geom /\ table[r].match
    /\ \E r \in 1..Len(table) : table[r].geom /\ ~table[r].match
    /\ Qualifying(1) # {}

\* C4: the file a returned export wrote with its batch size is the file the
\* same request writes on the same table with any other batch size >= 1
C4_BatchSizeIrrelevant ==
    Returned(1) =>
        \A b2 \in 1..MaxBatch :
            files[Out(1)] =
                export_content(
                    RunQuery(build_query(items[1].where_sql, items[1].order_by), table),
                    b2)

\* C4 witness: a returned export that needed several fetches of unequal size
C4_Witness ==
    /\ Returned(1)
    /\ Len(delivered[1]) > self.batch_size
    /\ Len(delivered[1]) % self.batch_size # 0

\* C5: the features stand in the file in the order the cursor delivered
\* their rows, within a batch and across batches, and that order is the
\* order the order-by clause fixes
C5_DeliveryOrder ==
    fh[1] # "none" =>
        LET fs == Features(files[Out(1)])
            ts == Texts(delivered[1])
        IN  /\ Len(fs) <= Len(ts)
            /\ fs = SubSeq(ts, 1, Len(fs))
            /\ Returned(1) => fs = ts
            /\ \A p, q \in 1..Len(fs) : \A a, b \in 1..Len(table) :
                  (p < q /\ fs[p] = FeatureText(a) /\ fs[q] = FeatureText(b)) =>
                      (IF HasOrder(1) THEN a > b ELSE a < b)

\* C5 witness: a returned ordered export whose features came in two batches
C5_Witness ==
    /\ Returned(1)
    /\ HasOrder(1)
    /\ Len(Features(files[Out(1)])) >= 2
    /\ self.batch_size < Len(delivered[1])

\* C6 as claimed: the named cursor an export opened is closed on every exit
\* path of export_table, the normal one and every exception
C6_CursorClosedOnEveryExit ==
    \A i \in 1..Len(items) : Exited(i) => cur[i] # "open"

\* C7: whenever export_table has returned or raised, the connection it
\* opened is closed
C7_ConnectionClosedOnEveryExit ==
    \A i \in 1..Len(items) : Exited(i) => conn[i] # "open"

\* C7 witness: a write raised while streaming, after a feature was written,
\* and the connection of that export is closed
C7_Witness ==
    /\ pc = "raised"
    /\ exc = "OSError"
    /\ written >= 1
    /\ conn[idx] = "closed"

\* C8 as claimed: after the COUNT(*) query raised, the streaming query can
\* still be executed on the same connection and the export goes on
C8_CountFailureDoesNotAbort ==
    (pc = "execute" /\ countErr # "") => ENABLED (Execute /\ pc' = "open")

\* a content that is a complete FeatureCollection text
FullyWritten(c) ==
    StripWs(c) = <<"{\"type\":\"FeatureCollection\",\"features\":", "[">>
                    \o JoinComma(Features(c)) \o <<"]", "}">>

\* no export was started for any item after the one that raised
NoLaterExport ==
    \A j \in (idx + 1)..Len(items) :
        conn[j] = "none" /\ cur[j] = "none" /\ fh[j] = "none" /\ delivered[j] = << >>

\* C9 as claimed: an error of item k leaves export_many, no item after k is
\* exported, every item before k has completed and its file is fully written
C9_FailureStopsBatchAsClaimed ==
    /\ exc # "" => pc = "raised"
    /\ pc = "raised" =>
          /\ NoLaterExport
          /\ \A j \in 1..(idx - 1) : Returned(j) /\ FullyWritten(files[Out(j)])

\* C9 amended: as claimed, except that the file of an earlier item is fully
\* written only if the export of item k has not opened the same output path
C9_FailureStopsBatch ==
    /\ exc # "" => pc = "raised"
    /\ pc = "raised" =>
          /\ NoLaterExport
          /\ \A j \in 1..(idx - 1) :
                /\ Returned(j)
                /\ (fh[idx] = "none" \/ Out(idx) # Out(j)) => FullyWritten(files[Out(j)])

\* C9 witness: the second of three items raised while streaming into a path
\* of its own; the file of the first item holds its features
C9_Witness ==
    /\ pc = "raised"
    /\ idx = 2
    /\ Len(items) > 2
    /\ fh[2] = "closed"
    /\ Out(2) # Out(1)
    /\ Features(files[Out(1)]) # << >>
    /\ FullyWritten(files[Out(1)])

\* C10: export_many takes its items in list order, one at a time: an export
\* has a connection or a file only after every earlier item has returned
\* with its connection and file closed; never two connections or files open
C10_OneExportAtATime ==
    /\ Cardinality({i \in 1..Len(items) : conn[i] = "open"}) <= 1
    /\ Cardinality({i \in 1..Len(items) : fh[i] = "open"}) <= 1
    /\ \A i \in 1..Len(items) :
          (conn[i] # "none" \/ fh[i] # "none") =>
              /\ i <= idx
              /\ \A j \in 1..(i - 1) :
                    Returned(j) /\ conn[j] = "closed" /\ fh[j] = "closed"

\* C10 witness: the second export streams with its connection and file open
\* while those of the first are closed
C10_Witness ==
    /\ idx = 2
    /\ conn[2] = "open" /\ fh[2] = "open"
    /\ conn[1] = "closed" /\ fh[1] = "closed"
    /\ written >= 1

\* the keys of the properties object, once the expression has been evaluated
Keys == properties[1]

\* the explicit column list, when the caller gave a non-empty one
ExplicitList == columns.tag = "list" /\ columns.names # << >>

\* C11: whatever the geometry column and the column selection (all columns,
\* or an explicit list of any names), the properties object of a Feature has
\* no key that is the geometry column.
C11_GeometryNeverAKey ==
    properties # None => \A i \in DOMAIN Keys : Keys[i] # geometry_column

\* C12: with an explicit list of distinct column names, the keys of the
\* properties object are the listed columns, each once, in the order of the list.
C12_KeysInListOrder ==
    (/\ properties # None
     /\ ExplicitList
     /\ \A i, j \in DOMAIN columns.names :
           columns.names[i] = columns.names[j] => i = j)
    => Keys = columns.names

\* the export that is running, or that raised, has sent a query to the
\* database: its connection has a transaction, live or aborted
QuerySent == tx # "idle"

\* C13: when an export raises a configuration error (a missing table or output
\* key: KeyError; a target SRID that is no integer: ValueError), no query of
\* that export, neither the COUNT(*) nor the streaming query, has been sent.
C13_ConfigErrorBeforeAnyQuery ==
    (pc = "raised" /\ exc \in {"KeyError", "ValueError"}) => ~QuerySent

\* exports i and j of the list are the same request, i before j, both returned
Rerun(i, j) == i < j /\ Returned(j) /\ items[i] = items[j]

\* C14: when the same request is exported again on the unchanged table, the
\* output file holds after the second run exactly what it held after the first:
\* the second run replaces the content and keeps nothing the file held before.
C14_RerunLeavesSameContent ==
    \A i, j \in 1..Len(items) :
        Rerun(i, j) =>
            /\ snapshot[j] = snapshot[i]
            /\ Occurrences(snapshot[j], OldContent[1]) = 0

\* a request was exported twice on a table of two rows or more
C14_Witness ==
    /\ Len(table) >= 2
    /\ \E i, j \in 1..Len(items) : Rerun(i, j) /\ Len(Features(snapshot[j])) >= 2

\* C15: once export_table has opened its output file, the handle is closed
\* whenever the call has been left: after it returned and after a fetch or a
\* write raised while streaming.
C15_FileClosedOnEveryExit ==
    \A i \in 1..Len(items) :
        /\ Exited(i) => fh[i] # "open"
        /\ Returned(i) => fh[i] = "closed"

\* a later fetch raised after a feature had been written, and the handle is closed
C15_Witness ==
    /\ pc = "raised"
    /\ exc = "OperationalError"
    /\ written >= 1
    /\ fh[idx] = "closed"

\* the latest earlier export of the list that wrote to the output path of item i
Earlier(i) == {j \in 1..(i - 1) : Out(j) = Out(i)}

\* what the output path of item i held when export i started
ContentBefore(i) ==
    IF Earlier(i) = {}
    THEN OldContent
    ELSE snapshot[CHOOSE j \in Earlier(i) : \A k \in Earlier(i) : k <= j]

\* the export that is running or has raised failed to open its output file
OpenFailed == idx >= 1 /\ exc = "OSError" /\ fh[idx] = "none"

\* C16: when the output path cannot be opened, the error leaves export_table
\* and export_many: no row was fetched, the file holds what it held before the
\* export, the connection is closed and no later item is exported.
C16_OpenFailureAbortsExport ==
    OpenFailed =>
        /\ pc = "raised"
        /\ delivered[idx] = << >>
        /\ files[Out(idx)] = ContentBefore(idx)
        /\ conn[idx] = "closed"
        /\ NoLaterExport

\* the second of three exports could not open the path the first one wrote
C16_Witness ==
    /\ OpenFailed
    /\ idx = 2
    /\ Len(items) = 3
    /\ Out(1) = Out(2)
    /\ Features(files[Out(2)]) # << >>

\* deploy_sql has computed its targets
Filtered == dpc # "start" /\ dexc # "list_databases"

\* db is one of the targets
IsTarget(db) == \E k \in DOMAIN targets : targets[k] = db

\* the optional list names db
Names(opt, db) == opt # None /\ db \in opt[1]

\* C17: on a server that has the database 'postgres', 'postgres' is no target
\* when include does not name it, and is a target when include names it and
\* exclude does not.
C17_PostgresUnlessIncluded ==
    (Filtered /\ "postgres" \in all_dbs) =>
        /\ ~Names(request.include, "postgres") => ~IsTarget("postgres")
        /\ (Names(request.include, "postgres") /\ ~Names(request.exclude, "postgres"))
               => IsTarget("postgres")

\* the place of a database name in the sorted order
Rank(db) == CHOOSE k \in DOMAIN NameOrder : NameOrder[k] = db

\* C18: deploy_sql runs the SQL on its targets in sorted order, each at most
\* once, and only on targets; with continue_on_error false a failed database
\* is the last one run and its error leaves deploy_sql; with continue_on_error
\* true no failure of a target leaves deploy_sql, and when deploy_sql returns
\* every target has been run exactly once.
C18_DeployOrderAndErrors ==
    /\ \A k \in DOMAIN visited :
          /\ k <= Len(targets) /\ visited[k].db = targets[k]
          /\ \A j \in 1..(k - 1) : Rank(visited[j].db) < Rank(visited[k].db)
    /\ ~request.continue_on_error =>
          \A k \in DOMAIN visited :
              visited[k].failed =>
                  k = Len(visited) /\ dpc = "raised" /\ dexc = visited[k].db
    /\ request.continue_on_error =>
          /\ dpc = "raised" => (dexc = "list_databases" /\ visited = << >>)
          /\ (dpc = "returned" /\ Filtered) => Len(visited) = Len(targets)

\* with continue_on_error the first of two targets failed, the second was
\* still run, and deploy_sql returned
C18_Witness ==
    /\ request.continue_on_error
    /\ dpc = "returned"
    /\ Len(visited) = 2
    /\ visited[1].failed

\* e is a database error whose SQLSTATE is one of the transient ones
Transient(e) == e.db /\ e.pgcode # None /\ e.pgcode[1] \in TRANSIENT_SQLSTATES

\* C19: under a policy with max_attempts >= 1, _run_tx makes at most
\* max_attempts attempts; an attempt is followed by another only if it raised
\* a database error with a transient SQLSTATE while fewer than max_attempts
\* attempts had been made, and its connection is closed before the next one
\* starts; any other error ends _run_tx with that error, without a retry.
C19_RetryOnlyTransient ==
    retry.max_attempts >= 1 =>
        /\ attempt = Len(attempts)
        /\ Len(attempts) <= retry.max_attempts
        /\ \A k \in 1..(Len(attempts) - 1) :
              /\ attempts[k].error # None
              /\ Transient(attempts[k].error[1])
              /\ k < retry.max_attempts
              /\ attempts[k].conn \in {"none", "closed"}
        /\ \A k \in DOMAIN attempts :
              (attempts[k].error # None /\ ~Transient(attempts[k].error[1])) =>
                  /\ k = Len(attempts)
                  /\ rpc \in {"except", "raised"}
                  /\ rexc = attempts[k].error

\* the retries are exhausted: every one of max_attempts >= 2 attempts raised a
\* transient error in the step, each connection is closed, the last error is raised
C19_Witness ==
    /\ retry.max_attempts >= 2
    /\ Len(attempts) = retry.max_attempts
    /\ rpc = "raised"
    /\ \A k \in DOMAIN attempts :
          /\ attempts[k].error # None
          /\ Transient(attempts[k].error[1])
          /\ attempts[k].conn = "closed"

\* the export that is running is streaming: its prefix is written, its file open
Streaming ==
    /\ idx >= 1
    /\ fh[idx] = "open"
    /\ pc \in {"fetch", "for_row", "nl", "text", "inc", "suffix"}

\* the separating commas and the feature texts in the file being written
CommasWritten == Occurrences(files[Out(idx)], COMMA)
FeaturesWritten == Len(Features(files[Out(idx)]))

\* C20 as claimed: at every point during streaming the number of commas
\* written is max(0, written - 1)
C20_CommasAtEveryPoint ==
    Streaming => CommasWritten = Max(0, written - 1)

\* C20: between two passes of the for loop (before the first row, after the
\* increment of each feature, when the loop is left) the commas written are
\* max(0, written - 1), written is the number of feature texts written, and
\* exactly one comma stands between each two consecutive features; inside a
\* pass, from the comma to the increment, the commas written are written, and
\* the feature texts are written + 1 once the text is in the file.
C20_CommasBetweenRows ==
    Streaming =>
        /\ pc \in {"fetch", "for_row", "suffix"} =>
              /\ CommasWritten = Max(0, written - 1)
              /\ FeaturesWritten = written
              /\ StripWs(files[Out(idx)])
                    = PrefixText \o JoinComma(Features(files[Out(idx)]))
        /\ pc \in {"nl", "text"} =>
              /\ CommasWritten = written
              /\ FeaturesWritten = written
        /\ pc = "inc" =>
              /\ CommasWritten = written
              /\ FeaturesWritten = written + 1

\* two features are written and counted, one comma between them, and the
\* loop is about to take a third row
C20_Witness ==
    /\ Streaming
    /\ pc = "for_row"
    /\ written = 2
    /\ CommasWritten = 1

\* the for loop is about to take a row whose feature text is null
AtNullRow == pc = "for_row" /\ rows # << >> /\ for_rows(rows).feature_text = None

\* C21: the pass of the for loop over a row whose feature text is null changes
\* nothing of the output: the file, the written count and the first-feature
\* flag stay as they are and no line is printed.
C21_NullRowSkipped ==
    [][AtNullRow => /\ files' = files
                    /\ written' = written
                    /\ first' = first
                    /\ stderr' = stderr
                    /\ fh' = fh
                    /\ pc' \in {"for_row", "fetch"}]_vars

\* an export returned whose cursor delivered a null feature text between two
\* non-null ones, and its file holds exactly the two features
C21_Witness ==
    /\ Returned(1)
    /\ Len(delivered[1]) = 3
    /\ delivered[1][1].feature_text # None
    /\ delivered[1][2].feature_text = None
    /\ delivered[1][3].feature_text # None
    /\ Len(Features(files[Out(1)])) = 2
    /\ FullyWritten(files[Out(1)])

\* the content ends with the suffix "\n]}"
EndsWithSuffix(c) ==
    Len(c) >= Len(SuffixText)
    /\ SubSeq(c, Len(c) - Len(SuffixText) + 1, Len(c)) = SuffixText

\* the file the running export has opened
OwnFile == files[Out(idx)]

\* C22: in the file an export has opened, the suffix stands only after a fetch
\* returned empty: when a fetch or a write raised, the file holds at most the
\* prefix, then the features written so far with their separators, and no
\* part of the suffix; when the file ends with the suffix, the cursor is
\* exhausted and every row it delivered has been taken by the for loop.
C22_SuffixOnlyAfterEmptyFetch ==
    (idx >= 1 /\ fh[idx] # "none") =>
        /\ pc = "raised" =>
              /\ Occurrences(OwnFile, RBRACKET) = 0
              /\ Occurrences(OwnFile, RBRACE) = 0
              /\ \/ OwnFile = << >>
                 \/ SubSeq(OwnFile, 1, Len(PrefixText)) = PrefixText
              /\ Len(Features(OwnFile)) \in {written, written + 1}
        /\ EndsWithSuffix(OwnFile) =>
              /\ pc \in {"finish", "for_item", "returned"}
              /\ result = << >>
              /\ rows = << >>
              /\ delivered[idx] = RunQuery(query, table)
              /\ Features(OwnFile) = Texts(delivered[idx])

\* a fetch raised after features of an earlier batch were written: the file
\* holds the prefix and those features, no suffix
C22_Witness ==
    /\ idx >= 1
    /\ pc = "raised"
    /\ exc = "OperationalError"
    /\ fh[idx] = "closed"
    /\ written >= 1
    /\ Len(Features(OwnFile)) = written
    /\ ~EndsWithSuffix(OwnFile)

\* cur.execute of the running export raised
ExecuteFailed ==
    idx >= 1 /\ exc \in {"ProgrammingError", "InFailedSqlTransaction"}

\* C23: when the execution of the streaming query raises, the error leaves
\* export_table before the output path is opened: the export has no file
\* handle, no row was fetched, and the path holds what it held before.
C23_FailedExecuteLeavesFile ==
    ExecuteFailed =>
        /\ pc = "raised"
        /\ fh[idx] = "none"
        /\ delivered[idx] = << >>
        /\ files[Out(idx)] = ContentBefore(idx)

\* the query of the second export failed on the path the first export had
\* written: the file still holds the complete first export
C23_Witness ==
    /\ ExecuteFailed
    /\ exc = "ProgrammingError"
    /\ idx = 2
    /\ Out(1) = Out(2)
    /\ files[Out(2)] = snapshot[1]
    /\ Features(files[Out(2)]) # << >>

\* the streaming query of the running export has been assembled
QueryBuilt ==
    idx >= 1 /\ pc \in {"execute", "open", "prefix", "fetch", "for_row", "suffix",
                        "finish"}

\* the rows of the table whose feature the cursor of export i delivered
DeliveredRows(i) ==
    {r \in 1..Len(table) :
        \E k \in DOMAIN delivered[i] :
            delivered[i][k].feature_text = Some(FeatureText(r))}

\* C24: the assembled query always has the guard "geometry IS NOT NULL"; a
\* non-blank filter is attached as the parenthesised conjunct "AND (<filter>)"
\* and a blank or absent one adds no conjunct; a blank or absent order-by adds
\* no ORDER BY; and whatever the filter, one with a top-level OR included, no
\* row whose geometry is null is delivered.
C24_GuardedParenthesisedQuery ==
    /\ query.not_null_guard
    /\ QueryBuilt =>
          /\ query.and_where = IF HasFilter(idx) THEN items[idx].where_sql ELSE None
          /\ query.and_where # None => query.parenthesised
          /\ query.order_by = IF HasOrder(idx) THEN items[idx].order_by ELSE None
    /\ \A i \in 1..idx : \A r \in DeliveredRows(i) : table[r].geom

\* an export with a filter whose top-level operator is OR returned, on a table
\* that has a row with null geometry and a row it delivered
C24_Witness ==
    /\ Returned(1)
    /\ items[1].where_sql = Some(OrFilter)
    /\ \E r \in 1..Len(table) : ~table[r].geom
    /\ DeliveredRows(1) # {}

\* the progress lines printed to stderr
ProgressLines == {k \in DOMAIN stderr : stderr[k].line = "progress"}

\* the rows of the table the filter of item i holds for, null geometry or not
Counted(i) ==
    {r \in 1..Len(table) :
        HasFilter(i) => filter_value(items[i].where_sql[1], table[r])}

\* C25: the total of an export is the number of rows its filter holds for,
\* without the geometry guard; on the unchanged table it is never below the
\* written count, and the percentage of every progress line is at most 100.
C25_TotalBoundsWritten ==
    (idx = 1 /\ total # None) =>
        /\ total[1] = Cardinality(Counted(1))
        /\ Qualifying(1) \subseteq Counted(1)
        /\ total[1] >= written
        /\ \A k \in ProgressLines :
              pct(stderr[k].written, stderr[k].total[1]) <= 100

\* an export with a known total returned having written fewer features than
\* the total (a counted row has null geometry) and printed a progress line
C25_Witness ==
    /\ Returned(1)
    /\ total # None
    /\ written >= 1
    /\ total[1] > written
    /\ ProgressLines # {}

\* the progress lines printed for the written count w
ProgressLinesAt(w) == {k \in ProgressLines : stderr[k].written = w}

\* C26: with show_progress enabled and a known total, 0 included, there is one
\* progress line for every positive multiple of batch_size the written count
\* has reached and none for any other count; with an unknown total there is
\* no progress line.
C26_ProgressAtEveryMultiple ==
    idx = 1 =>
        /\ (self.show_progress /\ total # None) =>
              /\ \A w \in 1..written :
                    w % self.batch_size = 0 => Cardinality(ProgressLinesAt(w)) = 1
              /\ \A k \in ProgressLines :
                    /\ stderr[k].written \in 1..written
                    /\ stderr[k].written % self.batch_size = 0
        /\ total = None => ProgressLines = {}

\* the rows export_table holds: those of the list bound to the name rows and
\* those of a list fetchmany has returned that is not bound yet
Held == Len(bound) + (IF fetched = None THEN 0 ELSE Len(fetched[1]))

\* C27: every fetch returns at most batch_size rows, a batch is forwarded
\* completely before the next fetch, and, the previous batch being released
\* before the next fetch is issued, export_table never holds more rows than
\* batch_size.
C27_OneBatchHeld ==
    /\ Len(bound) <= self.batch_size
    /\ fetched # None => Len(fetched[1]) <= self.batch_size
    /\ pc \in {"fetch", "bind"} => rows = << >>
    /\ Held <= self.batch_size

\* the override o of a request is present: given and not the empty string
Present(o) == o # None /\ o[1] # ""

\* C28: every step leaves the instance defaults (schema, geometry_column,
\* batch_size, show_progress) as they are, and a step that enters export_table
\* for a request takes the schema and the geometry column of the request where
\* it has one and the instance default where it has none.
C28_OverridesLeaveDefaults ==
    [][ /\ self' = self
        /\ (idx' # idx /\ items[idx'].has_keys) =>
              /\ eff'.schema = IF Present(items[idx'].schema)
                               THEN items[idx'].schema[1] ELSE self.schema
              /\ eff'.geom = IF Present(items[idx'].geometry_column)
                             THEN items[idx'].geometry_column[1]
                             ELSE self.geometry_column ]_vars

\* after an export with both overrides has returned, a second request without
\* overrides is exported with the instance defaults
C28_Witness ==
    /\ idx = 2
    /\ Returned(1)
    /\ items[1].schema = Some("aero")
    /\ items[1].geometry_column = Some("shape")
    /\ items[2].schema = None
    /\ items[2].geometry_column = None
    /\ pc = "fetch"
    /\ eff = [schema |-> "public", geom |-> "geom"]
    /\ self.schema = "public"
    /\ self.geometry_column = "geom"

\* the rows delivered to export i whose feature text is not null
NonNull(i) == {k \in DOMAIN delivered[i] : delivered[i][k].feature_text # None}

\* the while loop of the export has been left by its break
LoopLeft == idx = 1 /\ pc \in {"suffix", "finish"}

\* C29: a fetch on the exhausted cursor ends the loop; when the loop has been
\* left, the rows fetched are the rows of the result set, each once and in
\* order, every one has been taken by the for loop, and each feature text was
\* written once; and a loop that has started leads to export_many having
\* returned with the suffix in the file, unless an exception was raised.
C29_StreamingTerminates ==
    /\ [][(pc = "fetch" /\ result = << >>) => pc' \in {"suffix", "raised"}]_vars
    /\ [](LoopLeft =>
            /\ result = << >>
            /\ rows = << >>
            /\ delivered[1] = RunQuery(query, table)
            /\ written = Cardinality(NonNull(1)))
    /\ [](pc = "returned" => EndsWithSuffix(files[Out(1)]))
    /\ (pc = "fetch") ~> (pc = "raised" \/ pc = "returned")

\* an export with batch size 1 has returned after a result set of at least two
\* rows, all written: the loop ran three fetches
C29_Witness ==
    /\ pc = "returned"
    /\ self.batch_size = 1
    /\ Len(delivered[1]) >= 2
    /\ written = Len(delivered[1])
    /\ EndsWithSuffix(files[Out(1)])

\* C30: with show_progress disabled no COUNT(*) is sent (no statement has run
\* on the connection before the streaming query, no count has failed), the
\* total is unknown throughout, stderr gets no warning and no progress line,
\* stdout gets no done line; and the file of a returned export is the one the
\* rows of the query give, which does not depend on show_progress.
C30_QuietExportSameFile ==
    /\ ~self.show_progress =>
          /\ total = None
          /\ countErr = ""
          /\ pc \in {"cursor", "execute"} => tx = "idle"
          /\ stderr = << >>
          /\ stdout = << >>
    /\ Returned(1) =>
          files[Out(1)] =
              export_content(
                  RunQuery(build_query(items[1].where_sql, items[1].order_by), table),
                  self.batch_size)

\* an export with show_progress disabled has returned after writing a full
\* batch and more: with a known total a progress line had been due
C30_Witness ==
    /\ ~self.show_progress
    /\ Returned(1)
    /\ written > self.batch_size
    /\ FullyWritten(files[Out(1)])
    /\ stderr = << >>
    /\ stdout = << >>

====
